---------------------------- MODULE Spec2Model ----------------------------
(***************************************************************************)
(* A model of the BDS extract-transform-load pipeline:                     *)
(*   src/src/extract.py, src/src/transform.py, src/src/load.py,            *)
(*   src/run_pipeline.py and the reader of src/dashboard/app.py.           *)
(*                                                                         *)
(* Numbers are fixed-point values in hundredths (every float the program   *)
(* produces is rounded to 2 decimals); a cell of a DataFrame is a record   *)
(* [k, v]: a number, NaN, an infinity, a string that parses as a number,   *)
(* or any other string.                                                    *)
(***************************************************************************)
EXTENDS Integers, Sequences, FiniteSets, TLC

(***************************************************************************)
(* Cells                                                                   *)
(***************************************************************************)
Scale == 100

Num(h) == [k |-> "num", v |-> h]
IntCell(n) == Num(n * Scale)
NaN == [k |-> "nan", v |-> 0]
Inf(s) == [k |-> "inf", v |-> s]
NumStr(n) == [k |-> "numstr", v |-> n * Scale]
Txt(s) == [k |-> "txt", v |-> s]

IsNull(c) == c.k = "nan"

Sign(n) == IF n < 0 THEN -1 ELSE 1

(***************************************************************************)
(* Tables: a set of column names and a sequence of rows, each row a        *)
(* function from the columns to cells.                                     *)
(***************************************************************************)
Table(cols, rows) == [cols |-> cols, rows |-> rows]

NRows(df) == Len(df.rows)

MapRows(df, cols, F(_, _)) ==
    Table(cols, [i \in 1..Len(df.rows) |-> [c \in cols |-> F(df.rows[i], c)]])

WithCol(df, col, F(_)) ==
    MapRows(df, df.cols \cup {col},
            LAMBDA r, c : IF c = col THEN F(r) ELSE r[c])

DropCol(df, col) ==
    MapRows(df, df.cols \ {col}, LAMBDA r, c : r[c])

(***************************************************************************)
(* CSV files: DataFrame.to_csv(index=False) and pandas.read_csv.  A field  *)
(* of the file is decimal text, empty, "inf" or other text; read_csv       *)
(* decides per column whether it is numeric.                               *)
(***************************************************************************)
Absent == [absent |-> TRUE]

ToCsvField(c) ==
    CASE c.k = "num"    -> [k |-> "dec", v |-> c.v]
      [] c.k = "numstr" -> [k |-> "dec", v |-> c.v]
      [] c.k = "nan"    -> [k |-> "empty", v |-> 0]
      [] c.k = "inf"    -> [k |-> "inftext", v |-> c.v]
      [] c.k = "txt"    -> [k |-> "text", v |-> c.v]

to_csv(df) == MapRows(df, df.cols, LAMBDA r, c : ToCsvField(r[c]))

NumericField(f) == f.k \in {"dec", "empty", "inftext"}

NumericColumn(file, c) ==
    \A i \in 1..Len(file.rows) : NumericField(file.rows[i][c])

FromCsvField(f, numeric) ==
    CASE f.k = "empty"   -> NaN
      [] f.k = "inftext" -> IF numeric THEN Inf(f.v)
                            ELSE Txt(IF f.v < 0 THEN "-inf" ELSE "inf")
      [] f.k = "dec"     -> IF numeric THEN Num(f.v) ELSE [k |-> "numstr", v |-> f.v]
      [] f.k = "text"    -> Txt(f.v)

read_csv(file) ==
    MapRows(file, file.cols,
            LAMBDA r, c : FromCsvField(r[c], NumericColumn(file, c)))

(***************************************************************************)
(* transform.py: static lookup tables and the numeric-column list          *)
(***************************************************************************)
FirmAgeCodes == {1, 10, 20, 30, 40, 50, 60, 65, 70, 75, 80, 90, 100, 110, 150}

FIRM_AGE_LABELS ==
    [c \in FirmAgeCodes |->
        CASE c = 1   -> "Total"
          [] c = 10  -> "0 (Startups)"
          [] c = 20  -> "1 year"
          [] c = 30  -> "2 years"
          [] c = 40  -> "3 years"
          [] c = 50  -> "4 years"
          [] c = 60  -> "5 years"
          [] c = 65  -> "1-5 years"
          [] c = 70  -> "6-10 years"
          [] c = 75  -> "11+ years"
          [] c = 80  -> "11-15 years"
          [] c = 90  -> "16-20 years"
          [] c = 100 -> "21-25 years"
          [] c = 110 -> "26+ years"
          [] c = 150 -> "Left Censored"]

StateCodes == (1..56) \ {3, 7, 14, 43, 52}

STATE_FIPS ==
    [c \in StateCodes |->
        CASE c = 1 -> "Alabama"        [] c = 2 -> "Alaska"
          [] c = 4 -> "Arizona"        [] c = 5 -> "Arkansas"
          [] c = 6 -> "California"     [] c = 8 -> "Colorado"
          [] c = 9 -> "Connecticut"    [] c = 10 -> "Delaware"
          [] c = 11 -> "District of Columbia"
          [] c = 12 -> "Florida"       [] c = 13 -> "Georgia"
          [] c = 15 -> "Hawaii"        [] c = 16 -> "Idaho"
          [] c = 17 -> "Illinois"      [] c = 18 -> "Indiana"
          [] c = 19 -> "Iowa"          [] c = 20 -> "Kansas"
          [] c = 21 -> "Kentucky"      [] c = 22 -> "Louisiana"
          [] c = 23 -> "Maine"         [] c = 24 -> "Maryland"
          [] c = 25 -> "Massachusetts" [] c = 26 -> "Michigan"
          [] c = 27 -> "Minnesota"     [] c = 28 -> "Mississippi"
          [] c = 29 -> "Missouri"      [] c = 30 -> "Montana"
          [] c = 31 -> "Nebraska"      [] c = 32 -> "Nevada"
          [] c = 33 -> "New Hampshire" [] c = 34 -> "New Jersey"
          [] c = 35 -> "New Mexico"    [] c = 36 -> "New York"
          [] c = 37 -> "North Carolina" [] c = 38 -> "North Dakota"
          [] c = 39 -> "Ohio"          [] c = 40 -> "Oklahoma"
          [] c = 41 -> "Oregon"        [] c = 42 -> "Pennsylvania"
          [] c = 44 -> "Rhode Island"  [] c = 45 -> "South Carolina"
          [] c = 46 -> "South Dakota"  [] c = 47 -> "Tennessee"
          [] c = 48 -> "Texas"         [] c = 49 -> "Utah"
          [] c = 50 -> "Vermont"       [] c = 51 -> "Virginia"
          [] c = 53 -> "Washington"    [] c = 54 -> "West Virginia"
          [] c = 55 -> "Wisconsin"     [] c = 56 -> "Wyoming"]

NUMERIC_COLS ==
    {"FIRM", "ESTAB", "EMP", "FIRMDEATH_FIRMS", "ESTABS_ENTRY", "ESTABS_EXIT",
     "JOB_CREATION", "JOB_DESTRUCTION", "NET_JOB_CREATION", "YEAR"}

(***************************************************************************)
(* pd.to_numeric(errors="coerce") on one cell, and clean_numeric_columns   *)
(***************************************************************************)
\* A parser that takes strings only: any cell that is not a string of digits
\* becomes missing.
to_numeric_StringsOnly(c) ==
    IF c.k = "numstr" THEN Num(c.v) ELSE NaN

to_numeric(c) ==
    CASE c.k = "num"    -> c
      [] c.k = "nan"    -> c
      [] c.k = "inf"    -> c
      [] c.k = "numstr" -> Num(c.v)
      [] c.k = "txt"    -> IF c.v = "inf" THEN Inf(1)
                           ELSE IF c.v = "-inf" THEN Inf(0 - 1)
                           ELSE NaN

\* A cleaning that puts 0 where a cell does not parse.
clean_numeric_columns_ZeroForUnparsed(df) ==
    MapRows(df, df.cols,
            LAMBDA r, c : IF c \in NUMERIC_COLS
                          THEN (IF to_numeric(r[c]) = NaN THEN Num(0) ELSE to_numeric(r[c]))
                          ELSE r[c])

clean_numeric_columns(df) ==
    MapRows(df, df.cols,
            LAMBDA r, c : IF c \in NUMERIC_COLS THEN to_numeric(r[c]) ELSE r[c])

(***************************************************************************)
(* (numerator / denominator * 100).round(2) on float cells: a missing      *)
(* operand gives NaN, 0/0 gives NaN, x/0 gives a signed infinity, and the  *)
(* quotient is rounded half-to-even in hundredths.                         *)
(***************************************************************************)
\* A quotient cut off after the second decimal.
RoundHalfEven_Truncate(a, b) == a \div b

RoundHalfEven(a, b) ==
    LET q == a \div b
        r == a % b
    IN  IF 2 * r < b THEN q
        ELSE IF 2 * r > b THEN q + 1
        ELSE IF q % 2 = 0 THEN q ELSE q + 1

RoundedPercent(nv, dv) ==
    IF dv > 0 THEN RoundHalfEven(nv * 100 * Scale, dv)
    ELSE RoundHalfEven((0 - nv) * 100 * Scale, 0 - dv)

Rate(n, d) ==
    IF n.k = "nan" \/ d.k = "nan" THEN NaN
    ELSE IF n.k = "inf" THEN (IF d.k = "inf" THEN NaN
                              ELSE Inf(n.v * Sign(d.v)))
    ELSE IF d.k = "inf" THEN Num(0)
    ELSE IF d.v = 0 THEN (IF n.v = 0 THEN NaN ELSE Inf(Sign(n.v)))
    ELSE Num(RoundedPercent(n.v, d.v))

(***************************************************************************)
(* calculate_rates: each rate is added when the two columns its guard      *)
(* names are present; the guard of the two establishment rates names FIRM  *)
(* while the expression reads ESTAB, which raises KeyError when absent.    *)
(***************************************************************************)
RateDefs ==
    << [rate |-> "STARTUP_RATE", guard |-> "FIRM",
        num |-> "ESTABS_ENTRY", den |-> "ESTAB"],
       [rate |-> "EXIT_RATE", guard |-> "FIRM",
        num |-> "ESTABS_EXIT", den |-> "ESTAB"],
       [rate |-> "JOB_CREATION_RATE", guard |-> "EMP",
        num |-> "JOB_CREATION", den |-> "EMP"],
       [rate |-> "JOB_DESTRUCTION_RATE", guard |-> "EMP",
        num |-> "JOB_DESTRUCTION", den |-> "EMP"],
       [rate |-> "FIRM_DEATH_RATE", guard |-> "FIRM",
        num |-> "FIRMDEATH_FIRMS", den |-> "FIRM"] >>

RateGuard(df, d) == d.guard \in df.cols /\ d.num \in df.cols

calculate_rates_raises(df) ==
    \E i \in 1..Len(RateDefs) :
        RateGuard(df, RateDefs[i]) /\ RateDefs[i].den \notin df.cols

RECURSIVE AddRates(_, _)
AddRates(df, i) ==
    IF i > Len(RateDefs) THEN df
    ELSE LET d == RateDefs[i]
         IN  AddRates(IF RateGuard(df, d)
                      THEN WithCol(df, d.rate, LAMBDA r : Rate(r[d.num], r[d.den]))
                      ELSE df,
                      i + 1)

calculate_rates(df) == AddRates(df, 1)

(***************************************************************************)
(* DataFrame.sort_values: ascending on the listed columns, missing values  *)
(* last, rows with equal keys kept in their order.                         *)
(***************************************************************************)
CellLess(a, b) ==
    IF a.k = "nan" THEN FALSE
    ELSE IF b.k = "nan" THEN TRUE
    ELSE a.v < b.v

RECURSIVE RowLess(_, _, _)
RowLess(r1, r2, keys) ==
    IF keys = <<>> THEN FALSE
    ELSE LET c == Head(keys)
         IN  \/ CellLess(r1[c], r2[c])
             \/ /\ ~CellLess(r2[c], r1[c])
                /\ RowLess(r1, r2, Tail(keys))

RECURSIVE InsertRow(_, _, _)
InsertRow(r, sorted, keys) ==
    IF sorted = <<>> THEN <<r>>
    ELSE IF RowLess(r, Head(sorted), keys) THEN <<r>> \o sorted
    ELSE <<Head(sorted)>> \o InsertRow(r, Tail(sorted), keys)

RECURSIVE SortRows(_, _)
SortRows(rows, keys) ==
    IF rows = <<>> THEN <<>>
    ELSE InsertRow(rows[Len(rows)], SortRows(SubSeq(rows, 1, Len(rows) - 1), keys), keys)

sort_values(df, keys) == Table(df.cols, SortRows(df.rows, keys))

KeysPresent(df, keys) == \A i \in 1..Len(keys) : keys[i] \in df.cols

(***************************************************************************)
(* Series.map(dict): the label of the code, NaN for a code not in the dict *)
(***************************************************************************)
MapLabel(c, dict) ==
    IF c.k = "num" /\ c.v % Scale = 0 /\ (c.v \div Scale) \in DOMAIN dict
    THEN Txt(dict[c.v \div Scale])
    ELSE NaN

(***************************************************************************)
(* extract_firm_births and add_firm_birth_rate                             *)
(***************************************************************************)
AGE_ZERO == 10

\* A selection by the next age class (FAGE = 20) in place of age 0, against
\* which the claim on FIRM_BIRTHS is tested for sensitivity.
IsStartup_NextAgeClass(r) == r["FAGE"] = IntCell(20)

IsStartup(r) == r["FAGE"] = IntCell(AGE_ZERO)

extract_firm_births(firm_age_df) ==
    LET startups == SelectSeq(firm_age_df.rows, IsStartup)
    IN  Table({"YEAR", "FIRM_BIRTHS"},
              [i \in 1..Len(startups) |->
                  [c \in {"YEAR", "FIRM_BIRTHS"} |->
                      IF c = "YEAR" THEN startups[i]["YEAR"]
                      ELSE startups[i]["FIRM"]]])

\* One left row joined with the rows of the right table that carry its key:
\* one output row per match, or one row with a missing value when none.
JoinRow(l, lcols, right, on, col) ==
    LET matches == SelectSeq(right.rows, LAMBDA m : m[on] = l[on])
        ext(x)  == [c \in lcols \cup {col} |-> IF c = col THEN x ELSE l[c]]
    IN  IF matches = <<>> THEN << ext(NaN) >>
        ELSE [i \in 1..Len(matches) |-> ext(matches[i][col])]

RECURSIVE JoinRows(_, _, _, _, _)
JoinRows(lrows, lcols, right, on, col) ==
    IF lrows = <<>> THEN <<>>
    ELSE JoinRow(Head(lrows), lcols, right, on, col)
         \o JoinRows(Tail(lrows), lcols, right, on, col)

merge_left(df, right, on, col) ==
    Table(df.cols \cup {col}, JoinRows(df.rows, df.cols, right, on, col))

add_firm_birth_rate_raises(national_df, firm_age_df) ==
    \/ {"FAGE", "YEAR", "FIRM"} \ firm_age_df.cols # {}
    \/ {"YEAR", "FIRM"} \ national_df.cols # {}

add_firm_birth_rate(national_df, firm_age_df) ==
    LET firm_births == extract_firm_births(firm_age_df)
        df == merge_left(national_df, firm_births, "YEAR", "FIRM_BIRTHS")
    IN  WithCol(df, "FIRM_BIRTH_RATE", LAMBDA r : Rate(r["FIRM_BIRTHS"], r["FIRM"]))

(***************************************************************************)
(* transform_national, transform_by_firm_age, transform_by_state           *)
(***************************************************************************)
DropUs(df) == IF "us" \in df.cols THEN DropCol(df, "us") ELSE df

transform_national_raises(df) ==
    \/ calculate_rates_raises(df)
    \/ "YEAR" \notin df.cols

transform_national(df) ==
    DropUs(sort_values(calculate_rates(clean_numeric_columns(df)), <<"YEAR">>))

transform_by_firm_age_raises(df) ==
    \/ calculate_rates_raises(df)
    \/ ~KeysPresent(df, <<"YEAR", "FAGE">>)

transform_by_firm_age(df) ==
    LET rated   == calculate_rates(clean_numeric_columns(df))
        labeled == IF "FAGE" \in rated.cols
                   THEN WithCol(rated, "FIRM_AGE_LABEL",
                                LAMBDA r : MapLabel(r["FAGE"], FIRM_AGE_LABELS))
                   ELSE rated
    IN  DropUs(sort_values(labeled, <<"YEAR", "FAGE">>))

\* What the caller's table is after transform_by_firm_age(df): the function
\* rebinds df to the copy clean_numeric_columns returns and assigns columns
\* to copies only, so the caller's table is as it was.  The variant is a
\* function that assigns the rate and label columns to the table it is given.
raw_firm_age_after_transform_InPlace(df) ==
    WithCol(calculate_rates(df), "FIRM_AGE_LABEL",
            LAMBDA r : MapLabel(r["FAGE"], FIRM_AGE_LABELS))

raw_firm_age_after_transform(df) == df

transform_by_state_raises(df) ==
    \/ calculate_rates_raises(df)
    \/ ~KeysPresent(df, <<"YEAR", "state">>)

\* A transform that keeps only the rows whose state code has a name.
transform_by_state_DropUnnamed(df) ==
    LET rated   == calculate_rates(clean_numeric_columns(df))
        labeled == WithCol(rated, "STATE_NAME",
                           LAMBDA r : MapLabel(r["state"], STATE_FIPS))
        named   == SelectSeq(labeled.rows, LAMBDA r : r["STATE_NAME"] # NaN)
    IN  sort_values(Table(labeled.cols, named), <<"YEAR", "state">>)

transform_by_state(df) ==
    LET rated   == calculate_rates(clean_numeric_columns(df))
        labeled == IF "state" \in rated.cols
                   THEN WithCol(rated, "STATE_NAME",
                                LAMBDA r : MapLabel(r["state"], STATE_FIPS))
                   ELSE rated
    IN  sort_values(labeled, <<"YEAR", "state">>)

(***************************************************************************)
(* load.py and the reader of dashboard/app.py: the SQLite store.  to_sql   *)
(* stores a missing value as NULL; SELECT ... ORDER BY returns the rows    *)
(* in key order, NULL keys first.                                          *)
(***************************************************************************)
ToSqlValue(c) ==
    CASE c.k = "num"    -> [k |-> "real", v |-> c.v]
      [] c.k = "nan"    -> [k |-> "null", v |-> 0]
      [] c.k = "inf"    -> [k |-> "realinf", v |-> c.v]
      [] c.k = "numstr" -> [k |-> "digits", v |-> c.v]
      [] c.k = "txt"    -> [k |-> "text", v |-> c.v]

\* to_sql without index=False: the frame's index becomes a column.
to_sql_WithIndexColumn(df) ==
    MapRows(df, {"index"} \cup df.cols,
            LAMBDA r, c : IF c = "index" THEN [k |-> "real", v |-> 0]
                          ELSE ToSqlValue(r[c]))

to_sql(df) == MapRows(df, df.cols, LAMBDA r, c : ToSqlValue(r[c]))

FromSqlValue(x) ==
    CASE x.k = "real"    -> Num(x.v)
      [] x.k = "null"    -> NaN
      [] x.k = "realinf" -> Inf(x.v)
      [] x.k = "digits"  -> [k |-> "numstr", v |-> x.v]
      [] x.k = "text"    -> Txt(x.v)

SqlLess(a, b) ==
    IF b.k = "null" THEN FALSE
    ELSE IF a.k = "null" THEN TRUE
    ELSE a.v < b.v

RECURSIVE SqlRowLess(_, _, _)
SqlRowLess(r1, r2, keys) ==
    IF keys = <<>> THEN FALSE
    ELSE LET c == Head(keys)
         IN  \/ SqlLess(r1[c], r2[c])
             \/ /\ ~SqlLess(r2[c], r1[c])
                /\ SqlRowLess(r1, r2, Tail(keys))

RECURSIVE SqlInsert(_, _, _)
SqlInsert(r, sorted, keys) ==
    IF sorted = <<>> THEN <<r>>
    ELSE IF SqlRowLess(r, Head(sorted), keys) THEN <<r>> \o sorted
    ELSE <<Head(sorted)>> \o SqlInsert(r, Tail(sorted), keys)

RECURSIVE OrderBy(_, _)
OrderBy(rows, keys) ==
    IF rows = <<>> THEN <<>>
    ELSE SqlInsert(rows[Len(rows)], OrderBy(SubSeq(rows, 1, Len(rows) - 1), keys), keys)

\* pd.read_sql("SELECT * FROM <table> ORDER BY <keys>", conn)
read_sql(tbl, keys) ==
    MapRows(Table(tbl.cols, OrderBy(tbl.rows, keys)), tbl.cols,
            LAMBDA r, c : FromSqlValue(r[c]))

Shapes == {"national", "by_firm_age", "by_state"}

OrderKeys(s) ==
    CASE s = "national"    -> <<"YEAR">>
      [] s = "by_firm_age" -> <<"YEAR", "FAGE">>
      [] s = "by_state"    -> <<"YEAR", "state">>

IndexDefs ==
    << [name |-> "idx_national_year",  table |-> "national",    col |-> "YEAR"],
       [name |-> "idx_firm_age_year",  table |-> "by_firm_age", col |-> "YEAR"],
       [name |-> "idx_state_year",     table |-> "by_state",    col |-> "YEAR"],
       [name |-> "idx_firm_age_fage",  table |-> "by_firm_age", col |-> "FAGE"],
       [name |-> "idx_state_state",    table |-> "by_state",    col |-> "state"] >>

\* DROP TABLE removes the indexes built on the table.
\* A DROP TABLE that leaves the indexes of the table in place.
IndexesOn_None(ix, s) == {}

IndexesOn(ix, s) == {d \in ix : d.table = s}

\* CREATE INDEX IF NOT EXISTS, statement by statement; a statement on a
\* missing table or column raises and the later statements do not run.
RECURSIVE RunIndexStatements(_, _, _)
RunIndexStatements(store, ix, i) ==
    IF i > Len(IndexDefs) THEN [ok |-> TRUE, ix |-> ix]
    ELSE LET d == IndexDefs[i]
         IN  IF store[d.table] = Absent \/ d.col \notin store[d.table].cols
             THEN [ok |-> FALSE, ix |-> ix]
             ELSE RunIndexStatements(store, ix \cup {d}, i + 1)

(***************************************************************************)
(* extract.py: the requested variables, and what a fetch does with the     *)
(* response it gets.                                                       *)
(***************************************************************************)
ApiVariables ==
    << "FIRM", "ESTAB", "EMP", "FIRMDEATH_FIRMS", "ESTABS_ENTRY", "ESTABS_EXIT",
       "JOB_CREATION", "JOB_DESTRUCTION", "NET_JOB_CREATION" >>

HeaderOf(s) ==
    CASE s = "national"    -> ApiVariables \o <<"YEAR", "us">>
      [] s = "by_firm_age" -> ApiVariables \o <<"FAGE", "YEAR", "us">>
      [] s = "by_state"    -> ApiVariables \o <<"YEAR", "state">>

Range(f) == {f[i] : i \in DOMAIN f}

IndexIn(header, c) == CHOOSE i \in 1..Len(header) : header[i] = c

\* pd.DataFrame(rows, columns=headers): a row shorter than the longest row is
\* padded with missing values; the longest row must be as long as the header.
DataFrameRaises(rows, header) ==
    /\ rows # <<>>
    /\ \E i \in 1..Len(rows) :
          /\ \A j \in 1..Len(rows) : Len(rows[j]) <= Len(rows[i])
          /\ Len(rows[i]) # Len(header)

DataFrame(rows, header) ==
    Table(Range(header),
          [i \in 1..Len(rows) |->
              [c \in Range(header) |->
                  IF IndexIn(header, c) <= Len(rows[i])
                  THEN rows[i][IndexIn(header, c)]
                  ELSE NaN]])

\* A response is an HTTP error, a body that is not JSON, an empty JSON
\* array, or a JSON array of a header row and data rows.
TableResponse(header, rows) == [kind |-> "array", header |-> header, rows |-> rows]
HttpError  == [kind |-> "http_error"]
NotJson    == [kind |-> "not_json"]
EmptyArray == [kind |-> "empty_array"]

FetchRaises(resp) ==
    \/ resp.kind = "http_error"        \* response.raise_for_status()
    \/ resp.kind = "not_json"          \* response.json()
    \/ resp.kind = "empty_array"       \* data[0]
    \/ /\ resp.kind = "array"
       /\ DataFrameRaises(resp.rows, resp.header)

FetchResult(resp) == DataFrame(resp.rows, resp.header)

(***************************************************************************)
(* Bounds and the inputs drawn from them                                   *)
(***************************************************************************)
MaxVal == 3
MaxRows == 3
MaxLoads == 2

Years == {2020, 2021}

\* A cell of the API: a count as a string of digits, or a suppression code.
Vals == {Txt("D")} \cup {NumStr(n) : n \in 0..MaxVal}

\* A data row of a response: YEAR, the geography and age codes, and the
\* metric columns all holding b except column col, which holds x.
RichRow(header, year, key, b, col, x) ==
    [i \in 1..Len(header) |->
        CASE header[i] = "YEAR"  -> NumStr(year)
          [] header[i] = "us"    -> NumStr(1)
          [] header[i] = "FAGE"  -> NumStr(key)
          [] header[i] = "state" -> NumStr(key)
          [] OTHER -> IF header[i] = col THEN x ELSE b]

SimpleRow(header, year, key, b) == RichRow(header, year, key, b, "-", b)

ShortRow(header, year, key, b) ==
    SubSeq(SimpleRow(header, year, key, b), 1, Len(header) - 1)

\* The responses the remote API gives in the pipeline specification: a
\* well-formed table, a table with one row short of its last cell, a table
\* with a row longer than the header, and the failures.
GoodRows(s) ==
    CASE s = "national"    -> << SimpleRow(HeaderOf(s), 2020, 0, NumStr(2)) >>
      [] s = "by_firm_age" -> << SimpleRow(HeaderOf(s), 2020, 10, NumStr(1)) >>
      [] s = "by_state"    -> << SimpleRow(HeaderOf(s), 2020, 6, NumStr(1)) >>

RaggedRows(s) ==
    CASE s = "national"    -> << SimpleRow(HeaderOf(s), 2021, 0, Txt("D")),
                                 ShortRow(HeaderOf(s), 2020, 0, NumStr(1)) >>
      [] s = "by_firm_age" -> << SimpleRow(HeaderOf(s), 2021, 10, NumStr(0)),
                                 ShortRow(HeaderOf(s), 2020, 20, NumStr(2)) >>
      [] s = "by_state"    -> << SimpleRow(HeaderOf(s), 2020, 60, NumStr(1)),
                                 ShortRow(HeaderOf(s), 2020, 6, NumStr(2)) >>

LongRows(s) == << SimpleRow(HeaderOf(s), 2020, 10, NumStr(1)) \o << NumStr(1) >> >>

ApiResponses(s) ==
    { HttpError, NotJson, EmptyArray,
      TableResponse(HeaderOf(s), GoodRows(s)),
      TableResponse(HeaderOf(s), RaggedRows(s)),
      TableResponse(HeaderOf(s), LongRows(s)) }

\* A payload is malformed when it is not a JSON array of a header row and
\* data rows that each have one cell per header column.
Malformed(resp) ==
    \/ resp.kind \in {"not_json", "empty_array"}
    \/ /\ resp.kind = "array"
       /\ \E i \in 1..Len(resp.rows) : Len(resp.rows[i]) # Len(resp.header)

(***************************************************************************)
(* State                                                                   *)
(***************************************************************************)
VARIABLES
    pc,            \* per process: where its command stands
    cmd,           \* per process: run_pipeline, extract, transform or load
    result,        \* per process: none, ok, or error (the exception left main)
    stages,        \* per process: the stages its command has started, in order
    raw,           \* raw_<shape>.csv
    clean,         \* clean_<shape>.csv
    response,      \* per process: the response the last requests.get received
    requests,      \* per process and shape: requests issued by its command
    written,       \* per process: the files its command has written
    raw_firm_age,  \* per process: transform_all's cleaned firm-age table
    datasets,      \* per process: transform_all's datasets
    frames,        \* per process: load_all's national_df, firm_age_df, state_df
    db,            \* bds.db: the three tables
    indexes,       \* bds.db: the indexes
    conn,          \* per process: load_all's connection
    verified,      \* per process and table: the count the verification read
    dropped,       \* per process and table: what its load_table replaced
    first_load,    \* the store after the first load of the current clean files
    writer,        \* per table: the process whose load_table wrote it last
    before         \* per process: the store when its load_all started

vars == << pc, cmd, result, stages, raw, clean, response, requests, written,
           raw_firm_age, datasets, frames, db, indexes, conn, verified,
           dropped, first_load, writer, before >>

Procs == {"sh1", "sh2"}

Commands == {"run_pipeline", "extract", "transform", "load"}

At(at, shape) == [at |-> at, shape |-> shape]
Idle == At("idle", "-")
Exited == At("exit", "-")

NoResponse == [shape |-> "-", resp |-> [kind |-> "none"]]
NotLoaded == [runs |-> 0]
NoWriter == "none"
NoSnapshot == [taken |-> "no"]
Disturbed == [taken |-> "disturbed"]
NoCount == 0 - 1

InitProcs ==
    /\ cmd = [p \in Procs |-> "none"]
    /\ result = [p \in Procs |-> "none"]
    /\ stages = [p \in Procs |-> <<>>]
    /\ response = [p \in Procs |-> NoResponse]
    /\ requests = [p \in Procs |-> [s \in Shapes |-> 0]]
    /\ written = [p \in Procs |-> {}]
    /\ raw_firm_age = [p \in Procs |-> Absent]
    /\ datasets = [p \in Procs |-> [s \in Shapes |-> Absent]]
    /\ frames = [p \in Procs |-> [s \in Shapes |-> Absent]]
    /\ conn = [p \in Procs |-> "none"]
    /\ verified = [p \in Procs |-> [s \in Shapes |-> NoCount]]
    /\ dropped = [p \in Procs |-> [s \in Shapes |-> Absent]]
    /\ before = [p \in Procs |-> NoSnapshot]

\* An empty data directory and no database.
Init ==
    /\ InitProcs
    /\ first_load = NotLoaded
    /\ writer = [s \in Shapes |-> NoWriter]
    /\ pc = [p \in Procs |-> Idle]
    /\ raw = [s \in Shapes |-> Absent]
    /\ clean = [s \in Shapes |-> Absent]
    /\ db = [s \in Shapes |-> Absent]
    /\ indexes = {}

(***************************************************************************)
(* Starting a command (run_pipeline.py, or one stage's module on its own)  *)
(***************************************************************************)
\* A run_pipeline that starts at the transform stage.
FirstStage_SkipExtract(c) ==
    CASE c = "run_pipeline" -> "transform"
      [] c = "extract"      -> "extract"
      [] c = "transform"    -> "transform"
      [] c = "load"         -> "load"

FirstStage(c) ==
    CASE c = "run_pipeline" -> "extract"
      [] c = "extract"      -> "extract"
      [] c = "transform"    -> "transform"
      [] c = "load"         -> "load"

StageStart(stage) ==
    CASE stage = "extract"   -> At("fetch", "national")
      [] stage = "transform" -> At("transform", "by_firm_age")
      [] stage = "load"      -> At("load", "national")

\* The store as load_all finds it.
Snapshot == [taken |-> "yes", db |-> db, ix |-> indexes]

\* A write to the store by p disturbs what the other running loads found.
DisturbedBy(p) ==
    [q \in Procs |-> IF q # p /\ before[q] # NoSnapshot THEN Disturbed ELSE before[q]]

Invoke(p, c) ==
    /\ pc[p].at \in {"idle", "exit"}
    /\ cmd' = [cmd EXCEPT ![p] = c]
    /\ result' = [result EXCEPT ![p] = "none"]
    /\ stages' = [stages EXCEPT ![p] = << FirstStage(c) >>]
    /\ pc' = [pc EXCEPT ![p] = StageStart(FirstStage(c))]
    /\ response' = [response EXCEPT ![p] = NoResponse]
    /\ requests' = [requests EXCEPT ![p] = [s \in Shapes |-> 0]]
    /\ written' = [written EXCEPT ![p] = {}]
    /\ raw_firm_age' = [raw_firm_age EXCEPT ![p] = Absent]
    /\ datasets' = [datasets EXCEPT ![p] = [s \in Shapes |-> Absent]]
    /\ frames' = [frames EXCEPT ![p] = [s \in Shapes |-> Absent]]
    /\ conn' = [conn EXCEPT ![p] = IF c = "load" THEN "open" ELSE "none"]
    /\ verified' = [verified EXCEPT ![p] = [s \in Shapes |-> NoCount]]
    /\ dropped' = [dropped EXCEPT ![p] = [s \in Shapes |-> Absent]]
    /\ before' = [before EXCEPT ![p] = IF c = "load" THEN Snapshot ELSE NoSnapshot]
    /\ UNCHANGED << raw, clean, db, indexes, first_load, writer >>

\* An exception leaves the stage and main: nothing after it runs.  load_all's
\* finally clause closes the connection on the way out.
Raise(p) ==
    /\ pc' = [pc EXCEPT ![p] = Exited]
    /\ result' = [result EXCEPT ![p] = "error"]
    /\ conn' = [conn EXCEPT ![p] = IF conn[p] = "open" THEN "closed" ELSE @]
    /\ UNCHANGED stages

\* A stage returns: run_pipeline goes on with the next stage, a stage
\* run on its own ends.
Return(p, next) ==
    IF cmd[p] = "run_pipeline" /\ next # "end"
    THEN /\ pc' = [pc EXCEPT ![p] = StageStart(next)]
         /\ stages' = [stages EXCEPT ![p] = Append(@, next)]
         /\ conn' = [conn EXCEPT ![p] = IF next = "load" THEN "open" ELSE @]
         /\ UNCHANGED result
    ELSE /\ pc' = [pc EXCEPT ![p] = Exited]
         /\ result' = [result EXCEPT ![p] = "ok"]
         /\ conn' = [conn EXCEPT ![p] = IF conn[p] = "open" THEN "closed" ELSE @]
         /\ UNCHANGED stages

Step(p, at, shape) ==
    /\ pc' = [pc EXCEPT ![p] = At(at, shape)]
    /\ UNCHANGED << result, stages, conn >>

(***************************************************************************)
(* extract_all: fetch one shape and save it, in the order national,        *)
(* by_firm_age, by_state                                                   *)
(***************************************************************************)
File(kind, s) == << kind, s >>

Fetch(p) ==
    /\ pc[p].at = "fetch"
    /\ LET s == pc[p].shape
       IN  \E resp \in ApiResponses(s) :
             /\ response' = [response EXCEPT ![p] = [shape |-> s, resp |-> resp]]
             /\ requests' = [requests EXCEPT ![p][s] = @ + 1]
             /\ IF FetchRaises(resp)
                THEN /\ Raise(p)
                     /\ UNCHANGED << raw, written >>
                ELSE /\ raw' = [raw EXCEPT ![s] = to_csv(FetchResult(resp))]
                     /\ written' = [written EXCEPT ![p] = @ \cup {File("raw", s)}]
                     /\ CASE s = "national"    -> Step(p, "fetch", "by_firm_age")
                          [] s = "by_firm_age" -> Step(p, "fetch", "by_state")
                          [] s = "by_state"    -> Return(p, "transform")
    /\ UNCHANGED << cmd, clean, raw_firm_age, datasets, frames, db, indexes,
                    verified, dropped, first_load, writer, before >>

(***************************************************************************)
(* transform_all: by_firm_age, then national (with the firm births of the  *)
(* cleaned firm-age table), then by_state; each is read, transformed and   *)
(* saved.  to_csv opens the clean file for writing, which empties it, and  *)
(* then writes the table: a step reads and transforms a table and opens    *)
(* its clean file, and SaveClean writes it.                                *)
(***************************************************************************)
\* A file that has been opened for writing and not yet written; pd.read_csv
\* raises on it as on a missing file.
EmptyFile == [empty |-> TRUE]

\* A transform_all that goes on with an empty firm-age table when the raw
\* firm-age file cannot be read.
TransformFirmAge_EmptyWhenMissing(p) ==
    /\ pc[p] = At("transform", "by_firm_age")
    /\ LET s == "by_firm_age"
           cleaned == IF raw[s] = Absent THEN Table(Range(HeaderOf(s)), <<>>)
                      ELSE clean_numeric_columns(read_csv(raw[s]))
       IN  IF transform_by_firm_age_raises(cleaned)
           THEN /\ Raise(p)
                /\ raw_firm_age' = [raw_firm_age EXCEPT ![p] = cleaned]
                /\ UNCHANGED << datasets, clean, written >>
           ELSE /\ raw_firm_age' = [raw_firm_age EXCEPT ![p] =
                                       raw_firm_age_after_transform(cleaned)]
                /\ datasets' = [datasets EXCEPT ![p][s] = transform_by_firm_age(cleaned)]
                /\ clean' = [clean EXCEPT ![s] = EmptyFile]
                /\ Step(p, "save", s)
                /\ UNCHANGED written
    /\ first_load' = IF clean' = clean THEN first_load ELSE NotLoaded
    /\ UNCHANGED << cmd, raw, response, requests, frames, db, indexes, verified,
                    dropped, writer, before >>

TransformFirmAge(p) ==
    /\ pc[p] = At("transform", "by_firm_age")
    /\ LET s == "by_firm_age"
           cleaned == clean_numeric_columns(read_csv(raw[s]))
       IN  IF raw[s] = Absent
           THEN /\ Raise(p)
                /\ UNCHANGED << raw_firm_age, datasets, clean, written >>
           ELSE IF transform_by_firm_age_raises(cleaned)
           THEN /\ Raise(p)
                /\ raw_firm_age' = [raw_firm_age EXCEPT ![p] = cleaned]
                /\ UNCHANGED << datasets, clean, written >>
           ELSE /\ raw_firm_age' = [raw_firm_age EXCEPT ![p] =
                                       raw_firm_age_after_transform(cleaned)]
                /\ datasets' = [datasets EXCEPT ![p][s] = transform_by_firm_age(cleaned)]
                /\ clean' = [clean EXCEPT ![s] = EmptyFile]
                /\ Step(p, "save", s)
                /\ UNCHANGED written
    /\ first_load' = IF clean' = clean THEN first_load ELSE NotLoaded
    /\ UNCHANGED << cmd, raw, response, requests, frames, db, indexes, verified,
                    dropped, writer, before >>

TransformNational(p) ==
    /\ pc[p] = At("transform", "national")
    /\ LET s == "national"
           raw_national == read_csv(raw[s])
           national == transform_national(raw_national)
       IN  IF raw[s] = Absent
           THEN /\ Raise(p)
                /\ UNCHANGED << datasets, clean, written >>
           ELSE IF transform_national_raises(raw_national)
           THEN /\ Raise(p)
                /\ UNCHANGED << datasets, clean, written >>
           ELSE IF add_firm_birth_rate_raises(national, raw_firm_age[p])
           THEN /\ Raise(p)
                /\ datasets' = [datasets EXCEPT ![p][s] = national]
                /\ UNCHANGED << clean, written >>
           ELSE /\ datasets' = [datasets EXCEPT ![p][s] =
                                   add_firm_birth_rate(national, raw_firm_age[p])]
                /\ clean' = [clean EXCEPT ![s] = EmptyFile]
                /\ Step(p, "save", s)
                /\ UNCHANGED written
    /\ first_load' = IF clean' = clean THEN first_load ELSE NotLoaded
    /\ UNCHANGED << cmd, raw, response, requests, raw_firm_age, frames, db,
                    indexes, verified, dropped, writer, before >>

TransformState(p) ==
    /\ pc[p] = At("transform", "by_state")
    /\ LET s == "by_state"
           raw_state == read_csv(raw[s])
       IN  IF raw[s] = Absent
           THEN /\ Raise(p)
                /\ UNCHANGED << datasets, clean, written >>
           ELSE IF transform_by_state_raises(raw_state)
           THEN /\ Raise(p)
                /\ UNCHANGED << datasets, clean, written >>
           ELSE /\ datasets' = [datasets EXCEPT ![p][s] = transform_by_state(raw_state)]
                /\ clean' = [clean EXCEPT ![s] = EmptyFile]
                /\ Step(p, "save", s)
                /\ UNCHANGED written
    /\ first_load' = IF clean' = clean THEN first_load ELSE NotLoaded
    /\ UNCHANGED << cmd, raw, response, requests, raw_firm_age, frames, db,
                    indexes, verified, dropped, writer, before >>

\* save_clean_data writes the table and returns; transform_all goes on with
\* the next table, and run_pipeline with load_all after the last.
SaveClean(p) ==
    /\ pc[p].at = "save"
    /\ LET s == pc[p].shape
       IN  /\ clean' = [clean EXCEPT ![s] = to_csv(datasets[p][s])]
           /\ written' = [written EXCEPT ![p] = @ \cup {File("clean", s)}]
           /\ CASE s = "by_firm_age" -> Step(p, "transform", "national")
                [] s = "national"    -> Step(p, "transform", "by_state")
                [] s = "by_state"    -> Return(p, "load")
           /\ before' = [before EXCEPT ![p] =
                            IF s = "by_state" /\ cmd[p] = "run_pipeline"
                            THEN Snapshot ELSE @]
    /\ first_load' = NotLoaded
    /\ UNCHANGED << cmd, raw, response, requests, raw_firm_age, datasets, frames,
                    db, indexes, verified, dropped, writer >>

(***************************************************************************)
(* load_all: read each clean file and replace its table, create the        *)
(* indexes, read the row counts back, close the connection.                *)
(***************************************************************************)
\* to_sql with if_exists="append": the rows are added to an existing table.
load_table_Append(store, df, s) ==
    [store EXCEPT ![s] = IF @ = Absent THEN to_sql(df)
                         ELSE Table(@.cols, @.rows \o to_sql(df).rows)]

load_table(store, df, s) == [store EXCEPT ![s] = to_sql(df)]

LoadTable(p) ==
    /\ pc[p].at = "load"
    /\ LET s == pc[p].shape
           df == read_csv(clean[s])
       IN  IF clean[s] = Absent \/ clean[s] = EmptyFile
           THEN /\ Raise(p)
                /\ UNCHANGED << frames, db, indexes, dropped, writer, before >>
           ELSE /\ frames' = [frames EXCEPT ![p][s] = df]
                /\ before' = DisturbedBy(p)
                /\ writer' = [writer EXCEPT ![s] = p]
                /\ dropped' = [dropped EXCEPT ![p][s] = db[s]]
                /\ db' = load_table(db, df, s)
                /\ indexes' = indexes \ IndexesOn(indexes, s)
                /\ CASE s = "national"    -> Step(p, "load", "by_firm_age")
                     [] s = "by_firm_age" -> Step(p, "load", "by_state")
                     [] s = "by_state"    -> Step(p, "create_indexes", "-")
    /\ UNCHANGED << cmd, raw, clean, response, requests, written, raw_firm_age,
                    datasets, verified, first_load >>

\* create_indexes without its first statement.
create_indexes_SkipFirst(store, ix) == RunIndexStatements(store, ix, 2)

create_indexes(store, ix) == RunIndexStatements(store, ix, 1)

CreateIndexes(p) ==
    /\ pc[p].at = "create_indexes"
    /\ indexes' = create_indexes(db, indexes).ix
    /\ before' = DisturbedBy(p)
    /\ IF create_indexes(db, indexes).ok
       THEN Step(p, "verify", "national")
       ELSE Raise(p)
    /\ UNCHANGED << cmd, raw, clean, response, requests, written, raw_firm_age,
                    datasets, frames, db, verified, dropped, first_load, writer >>

\* What a load left in the store: each table's row count and the index
\* definitions.  It is recorded after the first load of the clean files as they
\* stand, and later loads of the same files are counted (up to MaxLoads).
StoreSummary == [rows |-> [s \in Shapes |-> IF db[s] = Absent THEN NoCount ELSE NRows(db[s])],
                 ix |-> indexes]

Loaded ==
    IF first_load = NotLoaded
    THEN [runs |-> 1, store |-> StoreSummary]
    ELSE [first_load EXCEPT !.runs = IF @ < MaxLoads THEN @ + 1 ELSE @]

\* SELECT COUNT(*) FROM <table>; the count is printed.
Verify(p) ==
    /\ pc[p].at = "verify"
    /\ LET s == pc[p].shape
       IN  IF db[s] = Absent
           THEN /\ Raise(p)
                /\ UNCHANGED << verified, first_load >>
           ELSE /\ verified' = [verified EXCEPT ![p][s] = NRows(db[s])]
                /\ CASE s = "national"    -> Step(p, "verify", "by_firm_age") /\ UNCHANGED first_load
                     [] s = "by_firm_age" -> Step(p, "verify", "by_state") /\ UNCHANGED first_load
                     [] s = "by_state"    -> Return(p, "end") /\ first_load' = Loaded
    /\ UNCHANGED << cmd, raw, clean, response, requests, written, raw_firm_age,
                    datasets, frames, db, indexes, dropped, writer, before >>

(***************************************************************************)
(* The pipeline run from one shell: commands one after another.            *)
(***************************************************************************)
Shell == "sh1"

Next ==
    \/ \E c \in Commands : Invoke(Shell, c)
    \/ Fetch(Shell)
    \/ TransformFirmAge(Shell)
    \/ TransformNational(Shell)
    \/ TransformState(Shell)
    \/ SaveClean(Shell)
    \/ LoadTable(Shell)
    \/ CreateIndexes(Shell)
    \/ Verify(Shell)

Spec == Init /\ [][Next]_vars

(***************************************************************************)
(* transform_all on its own, on raw files drawn from two bounded families: *)
(* one table holds a single row whose metric cells vary (the other tables  *)
(* hold a fixed row), the national and firm-age tables hold up to MaxRows  *)
(* rows between them, or one table holds a subset of the metric columns.   *)
(***************************************************************************)
KeysOf(s) ==
    CASE s = "national"    -> {0}
      [] s = "by_firm_age" -> {10, 20, 999}
      [] s = "by_state"    -> {6, 60}

\* One table holds a single row whose metric cells vary.
RichInput(s, y, key, b, col, x) ==
    [t \in Shapes |->
        IF t = s THEN << RichRow(HeaderOf(s), y, key, b, col, x) >>
        ELSE GoodRows(t)]

\* The FIRM cells of the national rows and of the firm-age rows.
JoinVals == {NumStr(0), NumStr(1)}
FirmAgeVals == {Txt("D"), NumStr(1)}

\* The national table holds the rows nat (year, cell) and the firm-age table
\* the rows age (year, FAGE, cell).
JoinInput(nat, age) ==
    [t \in Shapes |->
        CASE t = "national" ->
                [i \in 1..Len(nat) |->
                    SimpleRow(HeaderOf(t), nat[i][1], 0, nat[i][2])]
          [] t = "by_firm_age" ->
                [i \in 1..Len(age) |->
                    SimpleRow(HeaderOf(t), age[i][1], age[i][2], age[i][3])]
          [] t = "by_state" -> GoodRows(t)]

RawFile(s, rows) == to_csv(DataFrame(rows, HeaderOf(s)))

\* The header of table s with only the metric columns of present, and the raw
\* files where table s has that header and one row.
SubsetHeader(s, present) ==
    SelectSeq(HeaderOf(s), LAMBDA c : c \notin Range(ApiVariables) \/ c \in present)

ColumnSubsetInput(s, present) ==
    [t \in Shapes |->
        IF t = s
        THEN to_csv(DataFrame(<< RichRow(SubsetHeader(s, present), 2020,
                                         IF s = "national" THEN 0 ELSE 10,
                                         NumStr(2), "NET_JOB_CREATION", Txt("D")) >>,
                              SubsetHeader(s, present)))
        ELSE RawFile(t, GoodRows(t))]

InitTransform ==
    /\ cmd = [p \in Procs |-> IF p = Shell THEN "transform" ELSE "none"]
    /\ pc = [p \in Procs |-> IF p = Shell THEN StageStart("transform") ELSE Idle]
    /\ stages = [p \in Procs |-> IF p = Shell THEN << "transform" >> ELSE <<>>]
    /\ result = [p \in Procs |-> "none"]
    /\ response = [p \in Procs |-> NoResponse]
    /\ requests = [p \in Procs |-> [s \in Shapes |-> 0]]
    /\ written = [p \in Procs |-> {}]
    /\ raw_firm_age = [p \in Procs |-> Absent]
    /\ datasets = [p \in Procs |-> [s \in Shapes |-> Absent]]
    /\ frames = [p \in Procs |-> [s \in Shapes |-> Absent]]
    /\ conn = [p \in Procs |-> "none"]
    /\ verified = [p \in Procs |-> [s \in Shapes |-> NoCount]]
    /\ dropped = [p \in Procs |-> [s \in Shapes |-> Absent]]
    /\ before = [p \in Procs |-> NoSnapshot]
    /\ first_load = NotLoaded
    /\ writer = [s \in Shapes |-> NoWriter]
    /\ \/ \E s \in Shapes, y \in Years, b \in Vals, x \in Vals :
             \E key \in KeysOf(s), col \in Range(ApiVariables) :
                raw = [t \in Shapes |-> RawFile(t, RichInput(s, y, key, b, col, x)[t])]
       \/ \E kn \in 1..MaxRows :
             \E ka \in 0..(MaxRows - kn) :
                \E nat \in [1..kn -> Years \X JoinVals],
                   age \in [1..ka -> Years \X {10, 20} \X FirmAgeVals] :
                   raw = [t \in Shapes |-> RawFile(t, JoinInput(nat, age)[t])]
       \/ \E s \in Shapes, present \in SUBSET Range(ApiVariables) :
             raw = ColumnSubsetInput(s, present)
    /\ clean = [s \in Shapes |-> Absent]
    /\ db = [s \in Shapes |-> Absent]
    /\ indexes = {}

NextTransform ==
    \/ TransformFirmAge(Shell)
    \/ TransformNational(Shell)
    \/ TransformState(Shell)
    \/ SaveClean(Shell)

SpecTransform == InitTransform /\ [][NextTransform]_vars

(***************************************************************************)
(* Claims on the derived rates and the cross-table join (SpecTransform)    *)
(***************************************************************************)
\* The rates of a table, each with its numerator and denominator columns.
DerivedRates ==
    { [rate |-> "STARTUP_RATE", num |-> "ESTABS_ENTRY", den |-> "ESTAB"],
      [rate |-> "EXIT_RATE", num |-> "ESTABS_EXIT", den |-> "ESTAB"],
      [rate |-> "JOB_CREATION_RATE", num |-> "JOB_CREATION", den |-> "EMP"],
      [rate |-> "JOB_DESTRUCTION_RATE", num |-> "JOB_DESTRUCTION", den |-> "EMP"],
      [rate |-> "FIRM_DEATH_RATE", num |-> "FIRMDEATH_FIRMS", den |-> "FIRM"],
      [rate |-> "FIRM_BIRTH_RATE", num |-> "FIRM_BIRTHS", den |-> "FIRM"] }

\* The tables transform_all holds in memory.
Produced == {s \in Shapes : datasets[Shell][s] # Absent}

RowsOf(df) == {df.rows[i] : i \in 1..Len(df.rows)}

Joined == datasets[Shell]["national"] # Absent
          /\ "FIRM_BIRTHS" \in datasets[Shell]["national"].cols

\* The age-0 rows of the cleaned firm-age table for the year cell y.
StartupsOf(y) ==
    {a \in RowsOf(raw_firm_age[Shell]) : a["FAGE"] = Num(10 * Scale) /\ a["YEAR"] = y}

\* C1: in every produced table, each derived rate of each row is null if and
\* only if its numerator is null, its denominator is null or its denominator
\* is zero (never an infinity).
C1_RateNullIffInputNullOrZeroDenominator ==
    \A s \in Produced : \A r \in RowsOf(datasets[Shell][s]) :
        \A d \in DerivedRates :
            d.rate \in DOMAIN r =>
                (r[d.rate].k = "nan"
                    <=> (r[d.num].k = "nan" \/ r[d.den].k = "nan" \/ r[d.den] = Num(0)))

\* C2: every row of the joined national table carries the FIRM count of an
\* age-0 row of its year, every age-0 row of a national year is carried by a
\* row of that year, and a year without an age-0 row has null FIRM_BIRTHS and
\* FIRM_BIRTH_RATE.
C2_FirmBirthsFromAgeZeroRowOfSameYear ==
    Joined =>
        /\ \A r \in RowsOf(datasets[Shell]["national"]) :
              IF StartupsOf(r["YEAR"]) = {}
              THEN r["FIRM_BIRTHS"] = NaN /\ r["FIRM_BIRTH_RATE"] = NaN
              ELSE \E a \in StartupsOf(r["YEAR"]) : r["FIRM_BIRTHS"] = a["FIRM"]
        /\ \A r \in RowsOf(datasets[Shell]["national"]) :
              \A a \in StartupsOf(r["YEAR"]) :
                 \E r2 \in RowsOf(datasets[Shell]["national"]) :
                    r2["YEAR"] = r["YEAR"] /\ r2["FIRM_BIRTHS"] = a["FIRM"]

\* A national row took its births from the age-0 row of its year while a row of
\* another age of that year holds a different count.
C2_Witness ==
    /\ Joined
    /\ \E r \in RowsOf(datasets[Shell]["national"]) :
          /\ r["FIRM_BIRTHS"] = Num(1 * Scale)
          /\ \E a \in RowsOf(raw_firm_age[Shell]) :
                a["YEAR"] = r["YEAR"] /\ a["FAGE"] # Num(10 * Scale)
                /\ a["FIRM"] # r["FIRM_BIRTHS"]

\* C3: the joined national table has as many rows as the national table read
\* from the raw file (one row per input row, whatever the firm-age table holds).
C3_JoinKeepsNationalRowCount ==
    Joined => NRows(datasets[Shell]["national"]) = NRows(raw["national"])

\* C4: when the firm-age table holds more than one age-0 row for a national
\* year, the join reports it: the only report transform_all can make is an
\* exception, so the joined table is not produced.
DuplicateStartups ==
    /\ raw_firm_age[Shell] # Absent
    /\ raw["national"] # Absent
    /\ \E r \in RowsOf(clean_numeric_columns(read_csv(raw["national"]))) :
          Cardinality({i \in 1..NRows(raw_firm_age[Shell]) :
                          LET a == raw_firm_age[Shell].rows[i]
                          IN  a["FAGE"] = Num(10 * Scale) /\ a["YEAR"] = r["YEAR"]}) > 1

C4_DuplicateStartupsAreFlagged ==
    DuplicateStartups => ~Joined

(***************************************************************************)
(* Two shells at once.  The data directory is as one shell leaves it after *)
(* run_pipeline.py got the well-formed tables and a later extract got the  *)
(* other ones; then the first shell runs transform or load and the second  *)
(* runs load, their steps interleaved.                                     *)
(***************************************************************************)
Other == "sh2"

GoodClean(s) ==
    LET firm_age == clean_numeric_columns(read_csv(RawFile("by_firm_age", GoodRows("by_firm_age"))))
    IN  CASE s = "by_firm_age" -> to_csv(transform_by_firm_age(firm_age))
          [] s = "national" ->
                to_csv(add_firm_birth_rate(
                          transform_national(read_csv(RawFile(s, GoodRows(s)))), firm_age))
          [] s = "by_state" -> to_csv(transform_by_state(read_csv(RawFile(s, GoodRows(s)))))

InitConc ==
    /\ InitProcs
    /\ pc = [p \in Procs |-> Idle]
    /\ raw = [s \in Shapes |-> RawFile(s, RaggedRows(s))]
    /\ clean = [s \in Shapes |-> GoodClean(s)]
    /\ db = [s \in Shapes |-> to_sql(read_csv(GoodClean(s)))]
    /\ indexes = Range(IndexDefs)
    /\ first_load = [runs |-> 1, store |-> StoreSummary]
    /\ writer = [s \in Shapes |-> Shell]

NextConc ==
    \/ Invoke(Shell, "transform")
    \/ TransformFirmAge(Shell)
    \/ TransformNational(Shell)
    \/ TransformState(Shell)
    \/ SaveClean(Shell)
    \/ \E p \in Procs :
          \/ Invoke(p, "load")
          \/ LoadTable(p)
          \/ CreateIndexes(p)
          \/ Verify(p)

SpecConc == InitConc /\ [][NextConc]_vars

\* The data directory and store SpecConc starts from, as the single shell
\* reaches them.
ConcStartReached ==
    /\ raw = [s \in Shapes |-> RawFile(s, RaggedRows(s))]
    /\ clean = [s \in Shapes |-> GoodClean(s)]
    /\ db = [s \in Shapes |-> to_sql(read_csv(GoodClean(s)))]
    /\ indexes = Range(IndexDefs)

(***************************************************************************)
(* Claims on the load stage and on the run                                 *)
(***************************************************************************)
LoadCompleted(p) ==
    /\ pc[p] = Exited
    /\ result[p] = "ok"
    /\ stages[p] # <<>>
    /\ stages[p][Len(stages[p])] = "load"

\* C5: when load_all completes normally, the row count it read back for each
\* table equals the row count of the table it wrote (a mismatch is fatal).
C5_CountMismatchIsFatal ==
    \A p \in Procs :
        LoadCompleted(p) =>
            \A s \in Shapes : verified[p][s] = NRows(frames[p][s])

\* C6: after every completed load of the same clean files, each table has the
\* row count, and the store the index definitions, that the first such load
\* left.
C6_ReloadLeavesStoreUnchanged ==
    (LoadCompleted(Shell) /\ first_load # NotLoaded) =>
        StoreSummary = first_load.store

\* The same clean files have been loaded at least twice.
C6_Witness ==
    /\ LoadCompleted(Shell)
    /\ first_load.runs >= 2
    /\ \A s \in Shapes : NRows(db[s]) > 0

\* C7: when load_all completes normally, each of the five indexes exists and
\* its table holds its column.
C7_IndexesExistAfterLoad ==
    LoadCompleted(Shell) =>
        \A i \in 1..5 :
            LET d == << [name |-> "idx_national_year",  table |-> "national",    col |-> "YEAR"],
                        [name |-> "idx_firm_age_year",  table |-> "by_firm_age", col |-> "YEAR"],
                        [name |-> "idx_state_year",     table |-> "by_state",    col |-> "YEAR"],
                        [name |-> "idx_firm_age_fage",  table |-> "by_firm_age", col |-> "FAGE"],
                        [name |-> "idx_state_state",    table |-> "by_state",    col |-> "state"] >>[i]
            IN  /\ d \in indexes
                /\ db[d.table] # Absent
                /\ d.col \in db[d.table].cols

\* A load completed on a store whose three tables, loaded and indexed by an
\* earlier run, it dropped.
C7_Witness ==
    /\ LoadCompleted(Shell)
    /\ first_load.runs >= 2
    /\ \A s \in Shapes : dropped[Shell][s] # Absent

\* C8: a table read back from the store has the columns, the row count and the
\* (YEAR, key) pairs of the table load_table wrote.
KeyPairs(df, s) ==
    { [i \in 1..Len(OrderKeys(s)) |-> r[OrderKeys(s)[i]]] : r \in RowsOf(df) }

C8_RoundTripThroughStore ==
    \A s \in Shapes :
        frames[Shell][s] # Absent =>
            /\ db[s] # Absent
            /\ LET back == read_sql(db[s], OrderKeys(s))
               IN  /\ back.cols = frames[Shell][s].cols
                   /\ NRows(back) = NRows(frames[Shell][s])
                   /\ KeyPairs(back, s) = KeyPairs(frames[Shell][s], s)

\* A table with a missing key replaced a table of another row count.
C8_Witness ==
    /\ frames[Shell]["by_state"] # Absent
    /\ dropped[Shell]["by_state"] # Absent
    /\ NRows(dropped[Shell]["by_state"]) # NRows(frames[Shell]["by_state"])
    /\ \E r \in RowsOf(frames[Shell]["by_state"]) : r["state"] = NaN

\* C9: in a run of the pipeline the stages start in the order extract,
\* transform, load; transform has started only if the run wrote the three raw
\* files, load only if it wrote the three clean files; and after a failed
\* fetch the run has ended in error with no later stage started.
IsPrefix(a, b) == Len(a) <= Len(b) /\ a = SubSeq(b, 1, Len(a))

InStages(p, stage) == \E i \in 1..Len(stages[p]) : stages[p][i] = stage

C9_StagesRunInOrder ==
    cmd[Shell] = "run_pipeline" =>
        /\ IsPrefix(stages[Shell], << "extract", "transform", "load" >>)
        /\ InStages(Shell, "transform") =>
              \A s \in Shapes : << "raw", s >> \in written[Shell]
        /\ InStages(Shell, "load") =>
              \A s \in Shapes : << "clean", s >> \in written[Shell]
        /\ response[Shell].resp.kind = "http_error" =>
              /\ result[Shell] = "error"
              /\ pc[Shell] = Exited
              /\ stages[Shell] = << "extract" >>
        /\ result[Shell] = "error" => pc[Shell] = Exited

\* A run of the pipeline went through its three stages.
C9_Witness ==
    /\ cmd[Shell] = "run_pipeline"
    /\ LoadCompleted(Shell)
    /\ stages[Shell] = << "extract", "transform", "load" >>

\* C10: after a fetch got a non-success response or a malformed payload, the
\* run has written no raw file for that shape, issued one request for it,
\* and ended in error without a request for a later shape.
LaterShapes(s) ==
    CASE s = "national"    -> {"by_firm_age", "by_state"}
      [] s = "by_firm_age" -> {"by_state"}
      [] OTHER -> {}

C10_FailedFetchWritesNothingAndAborts ==
    \A p \in Procs :
        (response[p].resp.kind = "http_error" \/ Malformed(response[p].resp)) =>
            /\ << "raw", response[p].shape >> \notin written[p]
            /\ requests[p][response[p].shape] = 1
            /\ result[p] = "error"
            /\ pc[p] = Exited
            /\ \A t \in LaterShapes(response[p].shape) : requests[p][t] = 0

(***************************************************************************)
(* Claims on the cleaning step (SpecTransform)                             *)
(***************************************************************************)
\* The tables transform_all has read from the raw files so far.
ReadSoFar ==
    {s \in Shapes : raw[s] # Absent /\ File("clean", s) \in written[Shell]}

IsNumeric(c) == c.k \in {"num", "nan", "inf"}

\* C11: cleaning a table twice gives the table cleaned once, for every table
\* transform_all reads; and cleaning the cleaned firm-age table again, as
\* transform_by_firm_age does, leaves it as it is.
C11_CleaningIsIdempotent ==
    /\ \A s \in ReadSoFar :
          LET df == read_csv(raw[s])
          IN  clean_numeric_columns(clean_numeric_columns(df)) = clean_numeric_columns(df)
    /\ raw_firm_age[Shell] # Absent =>
          clean_numeric_columns(raw_firm_age[Shell]) = raw_firm_age[Shell]

\* The firm-age table read from the raw file held a digit string and a
\* suppression code in the FIRM column, and has been cleaned and transformed.
C11_Witness ==
    /\ "by_firm_age" \in ReadSoFar
    /\ raw_firm_age[Shell] # Absent
    /\ LET df == read_csv(raw["by_firm_age"])
       IN  /\ \E r \in RowsOf(df) : r["FIRM"].k = "numstr" /\ r["FIRM"].v > 0
           /\ \E r \in RowsOf(df) : r["FIRM"].k = "txt"

\* C12: cleaning never fails; in the cleaned firm-age table that transform_all
\* holds, and in the cleaning of every raw table, a cell of a listed column is
\* the number it parses as, or missing when it does not parse, and a cell of
\* any other column is the cell read; columns and row count are those read.
ListedColumns ==
    {"FIRM", "ESTAB", "EMP", "FIRMDEATH_FIRMS", "ESTABS_ENTRY", "ESTABS_EXIT",
     "JOB_CREATION", "JOB_DESTRUCTION", "NET_JOB_CREATION", "YEAR"}

CleanedAsSpecified(df, out) ==
    /\ out.cols = df.cols
    /\ NRows(out) = NRows(df)
    /\ \A i \in 1..NRows(df) : \A c \in df.cols :
          LET x == df.rows[i][c]
              y == out.rows[i][c]
          IN  IF c \in ListedColumns
              THEN CASE x.k \in {"num", "numstr"} -> y = Num(x.v)
                     [] x.k = "txt" -> y = NaN
                     [] OTHER -> y = x
              ELSE y = x

C12_CleaningCoercesAndNeverRaises ==
    /\ \A s \in Shapes :
          raw[s] # Absent =>
             CleanedAsSpecified(read_csv(raw[s]), clean_numeric_columns(read_csv(raw[s])))
    /\ pc[Shell] # At("transform", "by_firm_age") =>
          /\ raw_firm_age[Shell] # Absent
          /\ CleanedAsSpecified(read_csv(raw["by_firm_age"]), raw_firm_age[Shell])

\* transform_all has cleaned a firm-age table that lacks a listed column and
\* holds a suppression code in another.
C12_Witness ==
    /\ raw_firm_age[Shell] # Absent
    /\ LET df == read_csv(raw["by_firm_age"])
       IN  /\ "EMP" \notin df.cols
           /\ {"NET_JOB_CREATION", "FIRM"} \subseteq df.cols
           /\ \E i \in 1..NRows(df) :
                 /\ df.rows[i]["NET_JOB_CREATION"].k = "txt"
                 /\ raw_firm_age[Shell].rows[i]["NET_JOB_CREATION"] = NaN
                 /\ raw_firm_age[Shell].rows[i]["FIRM"] = Num(2 * Scale)

(***************************************************************************)
(* Claims on the labels (SpecTransform)                                    *)
(***************************************************************************)
\* The code column and label column of a table, and the codes that have a
\* label.
CodeColumn(s) == IF s = "by_state" THEN "state" ELSE "FAGE"
LabelColumn(s) == IF s = "by_state" THEN "STATE_NAME" ELSE "FIRM_AGE_LABEL"
Labelled(s) == IF s = "by_state" THEN DOMAIN STATE_FIPS ELSE DOMAIN FIRM_AGE_LABELS

HasLabel(s, code) ==
    code.k = "num" /\ \E n \in Labelled(s) : code.v = n * Scale

Restrict(r, cols) == [c \in cols |-> r[c]]

\* The transform of table s failed: the run ended in error before writing
\* the clean file of s, after writing those of the tables before it.
TransformedBefore(s) ==
    CASE s = "by_firm_age" -> {}
      [] s = "national"    -> {"by_firm_age"}
      [] s = "by_state"    -> {"by_firm_age", "national"}

FailedAt(s) ==
    /\ result[Shell] = "error"
    /\ File("clean", s) \notin written[Shell]
    /\ \A t \in TransformedBefore(s) : File("clean", t) \in written[Shell]

FullHeader(s) == raw[s] # Absent /\ Range(HeaderOf(s)) \subseteq raw[s].cols

\* C13: the transformed state and firm-age tables have as many rows as the
\* raw table; a row whose code has no label has a null label; every row
\* carries the columns of the cleaned and rated table unchanged; and the
\* transform of a table with all its columns does not fail.
C13_UnmappedCodeKeepsRowWithNullLabel ==
    \A s \in {"by_state", "by_firm_age"} :
        /\ FullHeader(s) => ~FailedAt(s)
        /\ datasets[Shell][s] # Absent =>
              LET out  == datasets[Shell][s]
                  src  == calculate_rates(clean_numeric_columns(read_csv(raw[s])))
                  kept == src.cols \ {"us"}
              IN  /\ NRows(out) = NRows(raw[s])
                  /\ out.cols = kept \cup {LabelColumn(s)}
                  /\ {Restrict(r, kept) : r \in RowsOf(out)}
                        = {Restrict(r, kept) : r \in RowsOf(src)}
                  /\ \A r \in RowsOf(out) :
                        ~HasLabel(s, r[CodeColumn(s)]) => r[LabelColumn(s)] = NaN

\* The transformed state table holds a row of state code 60 with no name,
\* its counts and a rate populated.
C13_Witness ==
    /\ datasets[Shell]["by_state"] # Absent
    /\ \E r \in RowsOf(datasets[Shell]["by_state"]) :
          /\ r["state"] = Num(60 * Scale)
          /\ r["STATE_NAME"] = NaN
          /\ r["FIRM"] = Num(2 * Scale)
          /\ r["FIRM_DEATH_RATE"].k = "num"

(***************************************************************************)
(* Claims on calculate_rates (SpecTransform)                               *)
(***************************************************************************)
\* The rates of calculate_rates with the two source columns each requires.
RequiredColumns ==
    { [rate |-> "STARTUP_RATE", num |-> "ESTABS_ENTRY", den |-> "ESTAB"],
      [rate |-> "EXIT_RATE", num |-> "ESTABS_EXIT", den |-> "ESTAB"],
      [rate |-> "JOB_CREATION_RATE", num |-> "JOB_CREATION", den |-> "EMP"],
      [rate |-> "JOB_DESTRUCTION_RATE", num |-> "JOB_DESTRUCTION", den |-> "EMP"],
      [rate |-> "FIRM_DEATH_RATE", num |-> "FIRMDEATH_FIRMS", den |-> "FIRM"] }

SortKeysPresent(s) == raw[s] # Absent /\ KeysPresent(raw[s], OrderKeys(s))

\* C14: whatever source columns the raw table holds, calculate_rates does not
\* fail (the transform of a table that has its sort keys produces the
\* table), and the produced table has a rate column exactly when the raw
\* table has both the numerator and the denominator column of that rate.
C14_RateAddedIffBothSourcesPresent ==
    \A s \in Shapes :
        SortKeysPresent(s) =>
            /\ ~(FailedAt(s) /\ datasets[Shell][s] = Absent)
            /\ datasets[Shell][s] # Absent =>
                  \A d \in RequiredColumns :
                      d.rate \in datasets[Shell][s].cols
                          <=> {d.num, d.den} \subseteq raw[s].cols

Abs(n) == IF n < 0 THEN 0 - n ELSE n

\* C15: in every produced table, a rate whose numerator is a number and
\* whose denominator is a non-zero number is a number of hundredths nearest
\* to numerator / denominator * 100.
C15_RateIsRoundedPercentage ==
    \A s \in Produced : \A r \in RowsOf(datasets[Shell][s]) :
        \A d \in DerivedRates :
            (d.rate \in DOMAIN r /\ r[d.num].k = "num" /\ r[d.den].k = "num"
                /\ r[d.den].v # 0) =>
                /\ r[d.rate].k = "num"
                /\ 2 * Abs(r[d.rate].v * r[d.den].v - r[d.num].v * 100 * Scale)
                      <= Abs(r[d.den].v)

\* A national row with 2 entries in 3 establishments and 1 birth in 3 firms:
\* 66.67 and 33.33.
C15_Witness ==
    /\ Joined
    /\ \E r \in RowsOf(datasets[Shell]["national"]) :
          /\ r["ESTABS_ENTRY"] = Num(2 * Scale)
          /\ r["ESTAB"] = Num(3 * Scale)
          /\ r["STARTUP_RATE"] = Num(6667)
          /\ r["FIRM_BIRTHS"] = Num(1 * Scale)
          /\ r["FIRM"] = Num(3 * Scale)
          /\ r["FIRM_BIRTH_RATE"] = Num(3333)

(***************************************************************************)
(* Claims on concurrent and failing loads                                  *)
(***************************************************************************)
\* The tables load_all of process p has replaced in its current run.
ReplacedBy(p) == {s \in Shapes : frames[p][s] # Absent}

\* load_all of p is between its first table replacement and the commit of
\* its indexes.
Replacing(p) ==
    /\ pc[p].at \in {"load", "create_indexes"}
    /\ ReplacedBy(p) # {}

NoLoadRunning == \A p \in Procs : pc[p].at \notin {"load", "create_indexes", "verify"}

\* C16: while a load run is between its first table replacement and the
\* commit of its indexes, no other run has written a table it replaced; and
\* when no load is running, the tables of the store were all written by one
\* run.
C16_LoadHasExclusiveAccess ==
    /\ \A p \in Procs :
          Replacing(p) => \A s \in ReplacedBy(p) : writer[s] = p
    /\ NoLoadRunning => \A s, t \in Shapes : writer[s] = writer[t]

\* The clean files the current command of the shell has written.
CleanWritten == {s \in Shapes : File("clean", s) \in written[Shell]}

\* C17: the clean national file is written by a transform run only after that
\* run has read and cleaned the raw firm-age file and written the clean
\* firm-age file; and a transform run that finds no raw firm-age file ends in
\* error with no clean file written.
C17_FirmAgeBeforeNationalEnrichment ==
    /\ "national" \in CleanWritten =>
          /\ raw["by_firm_age"] # Absent
          /\ raw_firm_age[Shell] = clean_numeric_columns(read_csv(raw["by_firm_age"]))
          /\ "by_firm_age" \in CleanWritten
    /\ (InStages(Shell, "transform") /\ raw["by_firm_age"] = Absent) =>
          /\ CleanWritten = {}
          /\ pc[Shell] # At("transform", "by_firm_age") =>
                pc[Shell] = Exited /\ result[Shell] = "error"

\* A transform run found the raw national file but no raw firm-age file and
\* ended in error.
C17_Witness ==
    /\ stages[Shell] = << "transform" >>
    /\ raw["national"] # Absent
    /\ raw["by_firm_age"] = Absent
    /\ pc[Shell] = Exited
    /\ result[Shell] = "error"
    /\ clean["national"] = Absent

\* C18: once transform_by_firm_age has run on the cleaned firm-age table, and
\* still after the national table has been joined with it, the table
\* transform_all holds has the columns of the raw file (no rate column, no
\* label column, 'us' kept) and the rows in the order of the file.
AddedColumns ==
    {"STARTUP_RATE", "EXIT_RATE", "JOB_CREATION_RATE", "JOB_DESTRUCTION_RATE",
     "FIRM_DEATH_RATE", "FIRM_AGE_LABEL", "FIRM_BIRTHS", "FIRM_BIRTH_RATE"}

FailedReplacing(p) ==
    /\ pc[p] = Exited
    /\ result[p] = "error"
    /\ stages[p] # <<>>
    /\ stages[p][Len(stages[p])] = "load"
    /\ ReplacedBy(p) # Shapes
    /\ before[p].taken = "yes"

\* C19: after load_all failed in a table replacement, the tables it had
\* replaced (none, national, or national and by_firm_age) hold the rows of
\* the clean files it read and have no index, every other table and its
\* indexes are as load_all found them, and the connection of every ended
\* load_all is closed.
C19_FailedLoadIsNotRolledBack ==
    \A p \in Procs :
        /\ FailedReplacing(p) =>
              /\ ReplacedBy(p) \in {{}, {"national"}, {"national", "by_firm_age"}}
              /\ \A s \in ReplacedBy(p) :
                    /\ db[s] = to_sql(frames[p][s])
                    /\ {d \in indexes : d.table = s} = {}
              /\ \A s \in Shapes \ ReplacedBy(p) :
                    /\ db[s] = before[p].db[s]
                    /\ {d \in indexes : d.table = s}
                          = {d \in before[p].ix : d.table = s}
        /\ (pc[p] = Exited /\ InStages(p, "load")) => conn[p] = "closed"

\* load_all failed after replacing the national table of a store that an
\* earlier run had loaded and indexed: the national table has new rows and
\* has lost its index, by_firm_age and by_state are as they were.
C19_Witness ==
    \E p \in Procs :
        /\ FailedReplacing(p)
        /\ ReplacedBy(p) = {"national"}
        /\ conn[p] = "closed"
        /\ \E d \in before[p].ix : d.table = "national"
        /\ before[p].db["national"] # Absent
        /\ \A s \in {"by_firm_age", "by_state"} :
              /\ db[s] # Absent
              /\ \E d \in indexes : d.table = s

=============================================================================
